---- MODULE Spec2Model ----
(***************************************************************************)
(* hpfeeds-elastic: the ingester of src/main.go.                           *)
(*                                                                         *)
(* main() starts one consumer goroutine (processPayloads) and then loops   *)
(* forever over Connect / Subscribe / wait for the disconnect signal /     *)
(* Sleep.  processPayloads ranges over the unbuffered channel `messages`,  *)
(* decodes each payload into the one Payload value `p` declared before the *)
(* loop, enriches it, adds it to the bulk request and, when the message    *)
(* counter is a multiple of 100, sends the bulk request.                   *)
(*                                                                         *)
(* Library calls are modelled by their documented behaviour:               *)
(*   json.Unmarshal   checks the syntax of the whole input before it       *)
(*                    stores anything; it stores only the keys the input   *)
(*                    holds, leaves every other field of the target as it  *)
(*                    was, ignores keys the struct does not declare, and   *)
(*                    on a value of the wrong type skips that field, goes  *)
(*                    on, and returns the earliest such error.             *)
(*   BulkService.Do   "when successful, you can reuse the BulkService for  *)
(*                    the next batch as the list of bulk requests is       *)
(*                    cleared on success": the list is cleared when a      *)
(*                    response was received (with or without per-document  *)
(*                    errors) and kept when Do returns an error.           *)
(*   fmt.Sprintf %f   six digits after the decimal point.                  *)
(*   hpfeeds client   one receive loop per session hands each message to   *)
(*                    the subscribed channel with a blocking send, and it  *)
(*                    is that loop, when it reads, that notices the loss   *)
(*                    of the session and signals hp.Disconnected.          *)
(***************************************************************************)
EXTENDS Integers, Sequences, FiniteSets, TLC

\* ------------------------------------------------------------------------
\* Program constants

MHNIndexName == "mhn-community-data-"

\* n%100 == 0: the batch size.
BatchSize == 100

\* time.Sleep(10 * time.Second), in seconds.
ReconnectDelay == 10

\* Mutant of ChanCap: the channel is made with room for a batch.
ChanCapBuffered == BatchSize

\* messages := make(chan hpfeeds.Message): the capacity of the channel.
ChanCap == 0

\* var Apps
Apps == <<"agave", "dionaea", "p0f", "amun", "kippo", "cowrie", "snort",
          "conpot", "suricata", "elastichoney">>

\* ------------------------------------------------------------------------
\* Bounds of the model

\* The transport's stream is DefaultPayload except at the message ordinals k
\* with k % BatchSize < MixedSpan (the message on each batch boundary and
\* the ones right after it, the first messages of the stream included),
\* where it is any payload of Payloads.
MixedSpan == 2

\* Messages pulled in the consumer-only specification SpecStream.
MaxPulled == 201

\* Messages delivered in the whole-program specification Spec.
MaxDelivered == 101

\* Disconnects the transport reports in Spec.
MaxDrops == 1

\* ------------------------------------------------------------------------
\* The Payload struct (the fields the model keeps) and its JSON form.
\* A float64 coordinate is kept in millionths of a degree, the precision
\* that %f prints.

StringFields == {"app", "dest_location", "src_ip", "src_location",
                 "ssh_username", "timestamp"}

FloatFields == {"dest_latitude", "dest_longitude",
                "src_latitude", "src_longitude"}

\* The json tags of Payload.
PayloadFields == StringFields \cup FloatFields

\* Tags declared with ,omitempty.
OmitEmpty == {"ssh_username"}

\* The fields the loop assigns after decoding.
EnrichmentFields == {"dest_location", "src_location", "timestamp"}

\* The zero value of a field's Go type.
ZeroOf(k) == IF k \in FloatFields THEN 0 ELSE ""

\* var p Payload
ZeroPayload == [k \in PayloadFields |-> ZeroOf(k)]

\* A JSON value: a string or a number.
Str(s) == [t |-> "string", v |-> s]
Num(x) == [t |-> "number", v |-> x]

\* mes.Payload: bytes that are not JSON (ok = FALSE), or a JSON object as
\* the sequence of its members in document order.
Json(members) == [ok |-> TRUE, members |-> members]
NotJson == [ok |-> FALSE, members |-> << >>]

\* A valid record that carries neither `app` nor coordinates.
DefaultPayload == Json(<< <<"src_ip", Str("192.0.2.7")>> >>)

\* A valid cowrie record; `session` is a key Payload does not declare.
FullPayload ==
    Json(<< <<"app", Str("cowrie")>>,
            <<"src_latitude", Num(37774900)>>,
            <<"src_longitude", Num(-122419400)>>,
            <<"dest_latitude", Num(51500000)>>,
            <<"dest_longitude", Num(-120000)>>,
            <<"src_ip", Str("198.51.100.9")>>,
            <<"ssh_username", Str("root")>>,
            <<"session", Str("a1b2")>> >>)

\* Well-formed JSON whose last member has the wrong type for its field.
TypedPayload ==
    Json(<< <<"app", Str("p0f")>>,
            <<"dest_latitude", Num(48850000)>>,
            <<"src_ip", Str("203.0.113.5")>>,
            <<"src_latitude", Str("north")>> >>)

Payloads == {DefaultPayload, FullPayload, NotJson, TypedPayload}

\* The JSON type a field's Go type accepts.
JsonTypeOf(k) == IF k \in FloatFields THEN "number" ELSE "string"

\* json.Unmarshal(payload, &q): the target after the call and the error.
\* Syntax is checked first and nothing is stored on a syntax error; then
\* the members are stored one by one into the existing value.
RECURSIVE DecodeMembers(_, _, _)
DecodeMembers(members, q, e) ==
    IF members = << >> THEN [p |-> q, err |-> e]
    ELSE LET k == Head(members)[1]
             v == Head(members)[2]
         IN  IF k \notin PayloadFields
               THEN DecodeMembers(Tail(members), q, e)
             ELSE IF v.t # JsonTypeOf(k)
               THEN DecodeMembers(Tail(members), q,
                                  IF e = "nil" THEN "type" ELSE e)
             ELSE DecodeMembers(Tail(members), [q EXCEPT ![k] = v.v], e)

Unmarshal(payload, q) ==
    IF ~payload.ok THEN [p |-> q, err |-> "syntax"]
    ELSE DecodeMembers(payload.members, q, "nil")

\* fmt.Sprintf("%f", x) for x in millionths.
Pad6(d) ==
    CASE d < 10 -> "00000" \o ToString(d)
      [] d < 100 -> "0000" \o ToString(d)
      [] d < 1000 -> "000" \o ToString(d)
      [] d < 10000 -> "00" \o ToString(d)
      [] d < 100000 -> "0" \o ToString(d)
      [] OTHER -> ToString(d)

SprintfF(x) ==
    LET a == IF x < 0 THEN -x ELSE x
    IN  (IF x < 0 THEN "-" ELSE "") \o ToString(a \div 1000000)
          \o "." \o Pad6(a % 1000000)

\* fmt.Sprintf("%f,%f", lat, lon)
Location(lat, lon) == SprintfF(lat) \o "," \o SprintfF(lon)

\* time.Now().Format(time.RFC3339), the clock read as the number of
\* messages pulled so far (it advances with every iteration).
FormatTime(t) == "t" \o ToString(t)

\* The three assignments to p after a successful decode.
Enrich(q, t) ==
    [q EXCEPT !["dest_location"] = Location(q["dest_latitude"], q["dest_longitude"]),
              !["src_location"] = Location(q["src_latitude"], q["src_longitude"]),
              !["timestamp"] = FormatTime(t)]

\* fmt.Sprintf("%s%s", MHNIndexName, p.App)
IndexOf(q) == MHNIndexName \o q["app"]

\* elastic.NewBulkIndexRequest().Index(index).Type("_doc").Doc(p): Doc takes
\* the struct by value.
BulkIndexRequest(q) == [index |-> IndexOf(q), doc |-> q]

\* The JSON document the store receives for a Payload: every tag, except an
\* omitempty tag whose field holds the zero value.
Marshal(q) ==
    [k \in {f \in PayloadFields : ~(f \in OmitEmpty /\ q[f] = ZeroOf(f))} |-> q[k]]

\* ------------------------------------------------------------------------
\* State

VARIABLES
    supPc,         \* main's loop: "connect", "subscribe", "wait", "sleep"
    session,       \* the transport session: "none", "open", "subscribed"
    disconnected,  \* a signal is pending on hp.Disconnected
    timer,         \* seconds left of time.Sleep
    drops,         \* disconnects reported so far
    pc,            \* processPayloads: "recv" (at range messages), "do" (in Do)
    n,             \* the message counter
    p,             \* var p Payload, declared before the loop
    bulkRequest,   \* the requests held by the BulkService
    mes,           \* the payload of the message of the current iteration
    err,           \* the result of json.Unmarshal: "nil", "syntax", "type"
    res,           \* how the last Do ended: "none", "ok", "errors", "error"
    calls,         \* history: bulk-write calls issued
    origin,        \* history: for each held request, the ordinal of its message
    window,        \* history: ordinals decoded since the last multiple of 100
    pValidOnly,    \* history: p of the same loop fed only the messages that decode
    rejectedUpTo,  \* history: n when Do last returned with rejected documents
    queue,         \* messages handed to the channel `messages`, not yet received
    initMapping,   \* the -init flag
    initOverride,  \* the -init-override flag
    bootIdx,       \* deleteIndex, createIndex: the position in Apps
    deleted,       \* indexes whose deletion the store acknowledged
    created        \* indexes whose creation the store acknowledged

\* supPc has, before the loop, "init" (at `if initMapping`), "delete" (in
\* deleteIndex), "read" and "create" (in createIndex), "go" (at the go
\* statement), and "exit" (log.Fatal); pc is "off" until the go statement.
supVars == <<supPc, session, disconnected, timer, drops>>
conVars == <<pc, n, p, bulkRequest, mes, err, res>>
histVars == <<calls, origin, window, pValidOnly, rejectedUpTo>>
bootVars == <<initMapping, initOverride, bootIdx, deleted, created>>
vars == <<supVars, conVars, histVars, queue, bootVars>>

\* ------------------------------------------------------------------------
\* processPayloads

\* Mutant of DecodeFailed: the error of json.Unmarshal is not looked at.
DecodeFailedIgnored(d) == FALSE

\* if err := json.Unmarshal(mes.Payload, &p); err != nil { ...; continue }
DecodeFailed(d) == d.err # "nil"

\* if n%100 == 0
AtBoundary(k) == k % BatchSize = 0

\* Mutant of AfterDo: the requests are kept unless every document was taken.
AfterDoKeepRejected(outcome, requests) ==
    IF outcome = "ok" THEN << >> ELSE requests

\* The requests the BulkService holds after Do: cleared when a response was
\* received, kept when Do returned an error.
AfterDo(outcome, requests) ==
    IF outcome = "error" THEN requests ELSE << >>

\* Mutant of AtRange: messages are received while Do has not returned.
AtRangeAlways == pc \in {"recv", "do"}

\* for mes := range messages: the loop is ready to receive.
AtRange == pc = "recv"

\* Mutant of Receive: the test of n%100 comes before the continue.
ReceiveFlushOnFailure(m) ==
    /\ AtRange
    /\ queue # << >>
    /\ m = Head(queue)
    /\ queue' = Tail(queue)
    /\ LET k == n + 1
           d == Unmarshal(m, p)
           v == Unmarshal(m, pValidOnly)
       IN  /\ n' = k
           /\ mes' = m
           /\ err' = d.err
           /\ window' = IF d.err = "nil"
                          THEN Append(IF AtBoundary(n) THEN << >> ELSE window, k)
                          ELSE IF AtBoundary(n) THEN << >> ELSE window
           /\ pValidOnly' = IF v.err = "nil" THEN Enrich(v.p, k) ELSE pValidOnly
           /\ pc' = IF AtBoundary(k) THEN "do" ELSE "recv"
           /\ calls' = IF AtBoundary(k) THEN calls + 1 ELSE calls
           /\ IF DecodeFailed(d)
                THEN /\ p' = d.p
                     /\ UNCHANGED <<bulkRequest, origin>>
                ELSE /\ p' = Enrich(d.p, k)
                     /\ bulkRequest' = Append(bulkRequest, BulkIndexRequest(p'))
                     /\ origin' = Append(origin, k)
    /\ UNCHANGED <<supVars, res, rejectedUpTo, bootVars>>

\* One iteration of `for mes := range messages`, up to the continue, the end
\* of the body or the call of bulkRequest.Do.  It receives the message the
\* transport is sending.
Receive(m) ==
    /\ AtRange
    /\ queue # << >>
    /\ m = Head(queue)
    /\ queue' = Tail(queue)
    /\ LET k == n + 1
           d == Unmarshal(m, p)
           v == Unmarshal(m, pValidOnly)
       IN  /\ n' = k
           /\ mes' = m
           /\ err' = d.err
           /\ window' = IF d.err = "nil"
                          THEN Append(IF AtBoundary(n) THEN << >> ELSE window, k)
                          ELSE IF AtBoundary(n) THEN << >> ELSE window
           /\ pValidOnly' = IF v.err = "nil" THEN Enrich(v.p, k) ELSE pValidOnly
           /\ IF DecodeFailed(d)
                THEN /\ p' = d.p
                     /\ pc' = "recv"
                     /\ UNCHANGED <<bulkRequest, origin, calls>>
                ELSE /\ p' = Enrich(d.p, k)
                     /\ bulkRequest' = Append(bulkRequest, BulkIndexRequest(p'))
                     /\ origin' = Append(origin, k)
                     /\ pc' = IF AtBoundary(k) THEN "do" ELSE "recv"
                     /\ calls' = IF AtBoundary(k) THEN calls + 1 ELSE calls
    /\ UNCHANGED <<supVars, res, rejectedUpTo, bootVars>>

\* Mutant of DoReturns: a transport error is fatal.
DoReturnsFatal(outcome) ==
    /\ pc = "do"
    /\ res' = outcome
    /\ bulkRequest' = AfterDo(outcome, bulkRequest)
    /\ origin' = AfterDo(outcome, origin)
    /\ pc' = IF outcome = "error" THEN "exit" ELSE "recv"
    /\ rejectedUpTo' = IF outcome = "errors" THEN n ELSE rejectedUpTo
    /\ UNCHANGED <<supVars, n, p, mes, err, calls, window, pValidOnly,
                   queue, bootVars>>

\* res, err := bulkRequest.Do(ctx) returns: a transport error ("error"), a
\* response with rejected documents ("errors") or a clean response ("ok").
\* The three branches only log.
DoReturns(outcome) ==
    /\ pc = "do"
    /\ res' = outcome
    /\ bulkRequest' = AfterDo(outcome, bulkRequest)
    /\ origin' = AfterDo(outcome, origin)
    /\ pc' = "recv"
    /\ rejectedUpTo' = IF outcome = "errors" THEN n ELSE rejectedUpTo
    /\ UNCHANGED <<supVars, n, p, mes, err, calls, window, pValidOnly,
                   queue, bootVars>>

DoOutcomes == {"ok", "errors", "error"}

\* ------------------------------------------------------------------------
\* main's loop and the transport

\* Mutant of Connect: each pass of the loop starts the consumer afresh.
ConnectRestartsConsumer(ok) ==
    /\ supPc = "connect"
    /\ session' = IF ok THEN "open" ELSE "none"
    /\ supPc' = "subscribe"
    /\ n' = 0
    /\ bulkRequest' = << >>
    /\ origin' = << >>
    /\ UNCHANGED <<disconnected, timer, drops, pc, p, mes, err, res, calls,
                   window, pValidOnly, rejectedUpTo, queue, bootVars>>

\* hp.Connect(); its result is not looked at.
Connect(ok) ==
    /\ supPc = "connect"
    /\ session' = IF ok THEN "open" ELSE "none"
    /\ supPc' = "subscribe"
    /\ UNCHANGED <<disconnected, timer, drops, conVars, histVars, queue, bootVars>>

\* hp.Subscribe(channel, messages): takes effect on an open session.
Subscribe ==
    /\ supPc = "subscribe"
    /\ session' = IF session = "open" THEN "subscribed" ELSE session
    /\ supPc' = "wait"
    /\ UNCHANGED <<disconnected, timer, drops, conVars, histVars, queue, bootVars>>

\* The transport's receive loop hands message m to the channel: the send
\* blocks until the consumer receives.  The channel holds what its buffer
\* takes and the one message of the blocked send.
TransportSend(m) ==
    /\ session = "subscribed"
    /\ Len(queue) < ChanCap + 1
    /\ queue' = Append(queue, m)
    /\ UNCHANGED <<supVars, conVars, histVars, bootVars>>

\* The transport's receive loop finds its session lost and reports it on
\* hp.Disconnected.
TransportDisconnect ==
    /\ session # "none"
    /\ queue = << >>
    /\ drops < MaxDrops
    /\ session' = "none"
    /\ disconnected' = TRUE
    /\ drops' = drops + 1
    /\ UNCHANGED <<supPc, timer, conVars, histVars, queue, bootVars>>

\* Mutant of AwaitDisconnected: the loop starts over without sleeping.
AwaitDisconnectedNoSleep ==
    /\ supPc = "wait"
    /\ disconnected
    /\ disconnected' = FALSE
    /\ supPc' = "connect"
    /\ UNCHANGED <<session, timer, drops, conVars, histVars, queue, bootVars>>

\* <-hp.Disconnected, then time.Sleep(10 * time.Second) begins.
AwaitDisconnected ==
    /\ supPc = "wait"
    /\ disconnected
    /\ disconnected' = FALSE
    /\ supPc' = "sleep"
    /\ timer' = ReconnectDelay
    /\ UNCHANGED <<session, drops, conVars, histVars, queue, bootVars>>

\* A second of the sleep passes.
Tick ==
    /\ supPc = "sleep"
    /\ timer > 0
    /\ timer' = timer - 1
    /\ UNCHANGED <<supPc, session, disconnected, drops, conVars, histVars, queue, bootVars>>

\* time.Sleep returns and the loop starts over.
Wake ==
    /\ supPc = "sleep"
    /\ timer = 0
    /\ supPc' = "connect"
    /\ UNCHANGED <<session, disconnected, timer, drops, conVars, histVars, queue, bootVars>>

\* ------------------------------------------------------------------------
\* Specifications

\* The payloads the transport may deliver as message number k.
StreamPayloads(k) ==
    IF k % BatchSize < MixedSpan THEN Payloads ELSE {DefaultPayload}

\* main() up to `go processPayloads(messages, client)` with no -init flag.
Init ==
    /\ supPc = "connect"
    /\ session = "none"
    /\ disconnected = FALSE
    /\ timer = 0
    /\ drops = 0
    /\ pc = "recv"
    /\ n = 0
    /\ p = ZeroPayload
    /\ bulkRequest = << >>
    /\ mes = NotJson
    /\ err = "nil"
    /\ res = "none"
    /\ calls = 0
    /\ origin = << >>
    /\ window = << >>
    /\ pValidOnly = ZeroPayload
    /\ rejectedUpTo = 0
    /\ queue = << >>
    /\ initMapping = FALSE
    /\ initOverride = FALSE
    /\ bootIdx = 1
    /\ deleted = {}
    /\ created = {}

Supervisor ==
    \/ \E ok \in BOOLEAN : Connect(ok)
    \/ Subscribe
    \/ AwaitDisconnected
    \/ Tick
    \/ Wake

\* The ordinal of the message the transport hands over next.
NextOrdinal == n + Len(queue) + 1

Consumer ==
    \/ \E m \in Payloads : Receive(m)
    \/ \E o \in DoOutcomes : DoReturns(o)

Next ==
    \/ Supervisor
    \/ TransportDisconnect
    \/ (NextOrdinal <= MaxDelivered
          /\ \E m \in StreamPayloads(NextOrdinal) : TransportSend(m))
    \/ Consumer

\* The whole program.
Spec == Init /\ [][Next]_vars

\* The whole program, main's goroutine being scheduled and its sleep ending.
FairSpec == Spec /\ WF_vars(Supervisor)

\* The consumer on a session that stays subscribed: main is in
\* <-hp.Disconnected and no message has been delivered yet.
InitStream ==
    /\ supPc = "wait"
    /\ session = "subscribed"
    /\ disconnected = FALSE
    /\ timer = 0
    /\ drops = 0
    /\ pc = "recv"
    /\ n = 0
    /\ p = ZeroPayload
    /\ bulkRequest = << >>
    /\ mes = NotJson
    /\ err = "nil"
    /\ res = "none"
    /\ calls = 0
    /\ origin = << >>
    /\ window = << >>
    /\ pValidOnly = ZeroPayload
    /\ rejectedUpTo = 0
    /\ queue = << >>
    /\ initMapping = FALSE
    /\ initOverride = FALSE
    /\ bootIdx = 1
    /\ deleted = {}
    /\ created = {}

\* The transport goes on handing over the messages of the stream.
StreamSend ==
    /\ NextOrdinal <= MaxPulled
    /\ \E m \in StreamPayloads(NextOrdinal) : TransportSend(m)

NextStream ==
    \/ StreamSend
    \/ Consumer

SpecStream == InitStream /\ [][NextStream]_vars

\* The same, the transport's receive loop being scheduled; nothing makes a
\* bulk write return.
FairStream == SpecStream /\ WF_vars(StreamSend)

(***************************************************************************)
(* main() from the flags to the loop: the bootstrap of the indexes.        *)
(***************************************************************************)
MaxBootDelivered == 2

\* fmt.Sprintf("%s%s", MHNIndexName, app)
IndexName(app) == MHNIndexName \o app

AllIndexes == {IndexName(Apps[i]) : i \in DOMAIN Apps}

\* What DeleteIndex(...).Do and CreateIndex(...).Do give back: a response
\* with Acknowledged set, a response without, or an error.
StoreReplies == {"acknowledged", "unacknowledged", "error"}

\* What createIndex finds at mappingFile: a JSON document, a file that is
\* not JSON, or no readable file.
MappingFiles == {"json", "invalid", "unreadable"}

AfterFlagsOverrideAlone(init, override) ==
    IF override THEN "delete" ELSE IF init THEN "read" ELSE "go"

\* if initMapping { if initOverride { deleteIndex(client) }; createIndex(...) }
AfterFlags(init, override) ==
    IF init THEN (IF override THEN "delete" ELSE "read") ELSE "go"

ReadFlags ==
    /\ supPc = "init"
    /\ supPc' = AfterFlags(initMapping, initOverride)
    /\ UNCHANGED <<session, disconnected, timer, drops, conVars, histVars,
                   queue, bootVars>>

\* One iteration of the loop of deleteIndex.
DeleteIndex(reply) ==
    /\ supPc = "delete"
    /\ IF reply = "acknowledged"
          THEN /\ deleted' = deleted \cup {IndexName(Apps[bootIdx])}
               /\ bootIdx' = IF bootIdx = Len(Apps) THEN 1 ELSE bootIdx + 1
               /\ supPc' = IF bootIdx = Len(Apps) THEN "read" ELSE "delete"
          ELSE /\ supPc' = "exit"
               /\ UNCHANGED <<deleted, bootIdx>>
    /\ UNCHANGED <<session, disconnected, timer, drops, conVars, histVars,
                   queue, initMapping, initOverride, created>>

\* createIndex up to its loop: ioutil.ReadFile and json.Valid.
ReadMapping(file) ==
    /\ supPc = "read"
    /\ supPc' = IF file = "json" THEN "create" ELSE "exit"
    /\ UNCHANGED <<session, disconnected, timer, drops, conVars, histVars,
                   queue, bootVars>>

\* One iteration of the loop of createIndex.
CreateIndex(reply) ==
    /\ supPc = "create"
    /\ IF reply = "acknowledged"
          THEN /\ created' = created \cup {IndexName(Apps[bootIdx])}
               /\ bootIdx' = IF bootIdx = Len(Apps) THEN 1 ELSE bootIdx + 1
               /\ supPc' = IF bootIdx = Len(Apps) THEN "go" ELSE "create"
          ELSE /\ supPc' = "exit"
               /\ UNCHANGED <<created, bootIdx>>
    /\ UNCHANGED <<session, disconnected, timer, drops, conVars, histVars,
                   queue, initMapping, initOverride, deleted>>

\* go processPayloads(messages, client)
StartConsumer ==
    /\ supPc = "go"
    /\ pc = "off"
    /\ pc' = "recv"
    /\ supPc' = "connect"
    /\ UNCHANGED <<session, disconnected, timer, drops, n, p, bulkRequest,
                   mes, err, res, histVars, queue, bootVars>>

\* main() once the flags are parsed and the store's client is made.
InitBoot ==
    /\ supPc = "init"
    /\ session = "none"
    /\ disconnected = FALSE
    /\ timer = 0
    /\ drops = 0
    /\ pc = "off"
    /\ n = 0
    /\ p = ZeroPayload
    /\ bulkRequest = << >>
    /\ mes = NotJson
    /\ err = "nil"
    /\ res = "none"
    /\ calls = 0
    /\ origin = << >>
    /\ window = << >>
    /\ pValidOnly = ZeroPayload
    /\ rejectedUpTo = 0
    /\ queue = << >>
    /\ initMapping \in BOOLEAN
    /\ initOverride \in BOOLEAN
    /\ bootIdx = 1
    /\ deleted = {}
    /\ created = {}

NextBoot ==
    \/ ReadFlags
    \/ \E reply \in StoreReplies : DeleteIndex(reply)
    \/ \E file \in MappingFiles : ReadMapping(file)
    \/ \E reply \in StoreReplies : CreateIndex(reply)
    \/ StartConsumer
    \/ Supervisor
    \/ TransportDisconnect
    \/ (NextOrdinal <= MaxBootDelivered
          /\ \E m \in StreamPayloads(NextOrdinal) : TransportSend(m))
    \/ \E m \in Payloads : Receive(m)

\* The program from its start to its first messages.
SpecBoot == InitBoot /\ [][NextBoot]_vars

\* ------------------------------------------------------------------------
\* Claims

\* The inbound JSON object of a payload: its keys, each with its last value.
InboundKeys(payload) == {payload.members[i][1] : i \in DOMAIN payload.members}

InboundObject(payload) ==
    [k \in InboundKeys(payload) |->
        LET last == CHOOSE i \in DOMAIN payload.members :
                        /\ payload.members[i][1] = k
                        /\ \A j \in DOMAIN payload.members :
                               payload.members[j][1] = k => j <= i
        IN  payload.members[last][2].v]

\* The value of an inbound field, or the given value when it is absent.
InboundOr(payload, k, absent) ==
    IF k \in InboundKeys(payload) THEN InboundObject(payload)[k] ELSE absent

\* The request added last, and whether it was built from `mes`, the message
\* of the iteration that ran last.
LastRequest == bulkRequest[Len(bulkRequest)]

BuiltFromMes ==
    /\ n > 0
    /\ err = "nil"
    /\ origin # << >>
    /\ origin[Len(origin)] = n

\* C1: after k messages pulled, the number of bulk-write calls issued is
\* floor(k / 100), whatever payloads the messages carried.
C1_FlushPerBoundary == calls = n \div BatchSize

\* C2: the requests handed to a bulk-write call, and the requests held
\* between calls, are exactly those of the messages that decoded since the
\* last multiple of 100, in the order they were pulled.
C2_BatchIsWindow ==
    origin = IF pc = "recv" /\ AtBoundary(n) THEN << >> ELSE window

\* C3: when a bulk write returns, however it ended, the bulk request holds
\* nothing.
C3_EmptyAfterFlush ==
    [][pc = "do" /\ pc' = "recv" => bulkRequest' = << >>]_vars

\* C4: a request carries the index MHNIndexName + a, a being the `app` of
\* the message it was built from, or "" when that message has no `app`.
C4_IndexFromOwnApp ==
    BuiltFromMes => LastRequest.index = MHNIndexName \o InboundOr(mes, "app", "")

\* C5: a message that fails to decode is counted, adds nothing to the bulk
\* request, and leaves the consumer at the head of its loop.
C5_DecodeFailureSkips ==
    /\ [](err # "nil" => pc = "recv")
    /\ [][n' # n /\ err' # "nil" =>
            /\ n' = n + 1
            /\ bulkRequest' = bulkRequest
            /\ pc' = "recv"]_vars

\* C5 witness: the message on the batch boundary failed to decode; it was
\* counted and the 99 requests before it are all that is held.
C5_Witness ==
    /\ err # "nil"
    /\ n = BatchSize
    /\ pc = "recv"
    /\ Len(bulkRequest) = BatchSize - 1

\* C6: the request built from a message is the one the same loop builds
\* (at the same clock reading) from the stream without the messages that
\* fail to decode.
C6_DecodeIsolation ==
    BuiltFromMes =>
        /\ LastRequest.doc = pValidOnly
        /\ LastRequest.index = IndexOf(pValidOnly)

\* C7: src_location and dest_location of a request are printed from the
\* coordinates of the message it was built from, an absent one being zero.
C7_AbsentCoordinateIsZero ==
    BuiltFromMes =>
        /\ LastRequest.doc["src_location"] =
               Location(InboundOr(mes, "src_latitude", 0),
                        InboundOr(mes, "src_longitude", 0))
        /\ LastRequest.doc["dest_location"] =
               Location(InboundOr(mes, "dest_latitude", 0),
                        InboundOr(mes, "dest_longitude", 0))

\* C8: every field of the inbound object of a request's message is in the
\* request's document with its inbound value, and whatever else the document
\* holds besides the three enrichment fields is the zero value of its type,
\* so nothing in it comes from another message.
C8_DocIsInboundPlusThree ==
    BuiltFromMes =>
        LET out == Marshal(LastRequest.doc)
            obj == InboundObject(mes)
        IN  /\ \A k \in DOMAIN obj \ EnrichmentFields :
                   k \in DOMAIN out /\ out[k] = obj[k]
            /\ \A k \in DOMAIN out \ (DOMAIN obj \cup EnrichmentFields) :
                   out[k] = ZeroOf(k)

\* C9: main leaves <-hp.Disconnected only into a sleep of ReconnectDelay
\* seconds, the sleep runs down second by second, hp.Connect() is called
\* again only when it has run out, and every disconnect signal leads to
\* that call.
C9_ReconnectAfterDelay ==
    /\ [][supPc = "wait" /\ supPc' # "wait" =>
            supPc' = "sleep" /\ timer' = ReconnectDelay]_vars
    /\ [][supPc = "sleep" /\ timer' # timer => timer' = timer - 1]_vars
    /\ [][supPc' = "connect" /\ supPc # "connect" =>
            supPc = "sleep" /\ timer = 0]_vars
    /\ (disconnected ~> supPc = "connect")

\* C9 witness: after a reported disconnect the sleep has run out and a new
\* hp.Connect() has opened a session.
C9_Witness ==
    /\ drops = 1
    /\ ~disconnected
    /\ timer = 0
    /\ supPc = "subscribe"
    /\ session = "open"

\* C10: main never waits for a disconnect signal that no session is there
\* to send.
C10_NeverWaitsOnNoSession ==
    supPc = "wait" => (session # "none" \/ disconnected)

\* C11: a Do that returns a response with rejected documents empties the
\* batch and the consumer goes back to receiving; no request built from a
\* message up to that flush is held, and so sent, ever again.
C11_RejectedNotRetried ==
    /\ [](\A i \in DOMAIN origin : origin[i] > rejectedUpTo)
    /\ [][pc = "do" /\ pc' = "recv" /\ res' = "errors"
            => bulkRequest' = << >> /\ origin' = << >>]_vars

C11_Witness ==
    /\ rejectedUpTo = BatchSize
    /\ pc = "do"
    /\ n = 2 * BatchSize
    /\ bulkRequest # << >>

\* C12: with decode failures, the three outcomes of Do, failed connects and
\* disconnects, neither loop ends: the consumer is receiving or in a Do that
\* can return, main's loop is waiting for a disconnect or can take its step.
C12_NeverTerminates ==
    /\ pc \in {"recv", "do"}
    /\ supPc \in {"connect", "subscribe", "wait", "sleep"}
    /\ pc = "do" => ENABLED (\E o \in DoOutcomes : DoReturns(o))
    /\ supPc # "wait" => ENABLED Supervisor

C12_Witness ==
    /\ res = "error"
    /\ err # "nil"
    /\ drops = 1
    /\ supPc = "wait"
    /\ session = "none"
    /\ ~disconnected
    /\ pc = "recv"

\* C13: while Do has not returned the consumer receives nothing (the channel
\* loses no message and n stays), and a Do is called only by a consumer that
\* is not in one, so at most one is in progress.
C13_FlushBlocks ==
    /\ [][pc = "do" => n' = n /\ mes' = mes /\ Len(queue') >= Len(queue)]_vars
    /\ [][calls' # calls => pc = "recv" /\ pc' = "do" /\ calls' = calls + 1]_vars
    /\ [][n' # n => pc = "recv" /\ n' = n + 1]_vars

C13_Witness ==
    /\ pc = "do"
    /\ n = 2 * BatchSize
    /\ calls = 2
    /\ queue # << >>

\* C14: a step of main's loop or of the transport's session leaves the
\* counter, the batch and the consumer's position as they are; the counter
\* only ever goes up by one, and a Do is reached at multiples of 100 of the
\* count since the start, whatever disconnects there were.
C14_SupervisorFrame ==
    /\ [][supVars' # supVars
            => n' = n /\ bulkRequest' = bulkRequest /\ pc' = pc]_vars
    /\ [][n' = n \/ n' = n + 1]_vars
    /\ [](pc = "do" => AtBoundary(n))

C14_Witness ==
    /\ drops = 1
    /\ session = "subscribed"
    /\ pc = "do"
    /\ n = BatchSize
    /\ Len(bulkRequest) = BatchSize

\* C15 (as written): when a Do does not return, the transport goes on
\* delivering and the channel comes to hold more than one message.
C15_QueueGrowsWhileStalled ==
    (pc = "do" /\ n = BatchSize) ~> (pc # "do" \/ Len(queue) > 1)

\* C15: the channel never holds more than the one message of the blocked
\* send, and while a Do has not returned that message stays where it is.
C15_QueueBounded ==
    /\ [](Len(queue) <= 1)
    /\ [][pc = "do" /\ queue # << >> => queue' = queue]_vars

C15_Witness ==
    /\ pc = "do"
    /\ n = BatchSize
    /\ Len(queue) = 1

\* C16: when Do is called the batch is not empty: its last request is the
\* one built from the message that brought n to the multiple of 100.
C16_FlushNeverEmpty ==
    pc = "do" => /\ bulkRequest # << >>
                 /\ origin[Len(origin)] = n
                 /\ LastRequest = BulkIndexRequest(p)

C16_Witness ==
    /\ pc = "do"
    /\ n = BatchSize
    /\ Len(bulkRequest) = BatchSize - 1

\* The consumer is started or a connection has been attempted.
PipelineStarted ==
    \/ pc # "off"
    \/ supPc \in {"connect", "subscribe", "wait", "sleep"}
    \/ session # "none"

\* C17: with -init the pipeline starts only when every index is created,
\* and, with -init-override too, after every index was deleted before the
\* first was created; log.Fatal ends the process with no message received;
\* without both flags no index is deleted.
C17_BootstrapFirst ==
    /\ [](PipelineStarted /\ initMapping => created = AllIndexes)
    /\ [](created # {} /\ initOverride => deleted = AllIndexes)
    /\ [](~(initMapping /\ initOverride) => deleted = {})
    /\ [](~initMapping => created = {})
    /\ [](supPc = "exit" => pc = "off" /\ n = 0 /\ session = "none")
    /\ [][supPc = "exit" => UNCHANGED vars]_vars

C17_Witness ==
    /\ initMapping
    /\ initOverride
    /\ deleted = AllIndexes
    /\ created = AllIndexes
    /\ n = MaxBootDelivered
    /\ session = "subscribed"

====
